---- MODULE Spec2Model ----
(***************************************************************************)
(* A model of assembler.py, the two-pass assembler for a 16-bit            *)
(* instruction word machine: preassemble (label splitting and push/pop     *)
(* expansion), pass 1 (label table), pass 2 (classification and encoding)  *)
(* and the final keep-or-remove of output.bin.                             *)
(*                                                                         *)
(* Text is modelled as TLA+ strings, character by character: the regular   *)
(* expressions of parse/parseLabel are run as prefix matches (re.match),   *)
(* Python's strip/find/lower/slices/splitlines/int/str/format are          *)
(* operators that compute what the library computes.                       *)
(***************************************************************************)
EXTENDS Integers, Sequences, FiniteSets, TLC

(***************************************************************************)
(* Python string primitives                                                *)
(***************************************************************************)
UPPER == "ABCDEFGHIJKLMNOPQRSTUVWXYZ"
LOWER == "abcdefghijklmnopqrstuvwxyz"
DIGITS == "0123456789"

Char(s, p) == SubSeq(s, p, p)

CharsOf(s) == { Char(s, k) : k \in 1..Len(s) }

Whitespace == {" ", "\t", "\n", "\r", "\f"}
Digits == CharsOf(DIGITS)
IdStart == CharsOf(UPPER) \cup CharsOf(LOWER) \cup {"_"}
IdCont == IdStart \cup Digits

\* s[a:b] for 0 <= a, 0 <= b (Python clamps both ends to len(s))
Slice(s, a, b) ==
    LET hi == IF b > Len(s) THEN Len(s) ELSE b
    IN  IF a >= hi THEN "" ELSE SubSeq(s, a + 1, hi)

\* s[a:]
SliceFrom(s, a) == Slice(s, a, Len(s))

\* s[-n:]
Last(s, n) == IF Len(s) <= n THEN s ELSE SubSeq(s, Len(s) - n + 1, Len(s))

RECURSIVE lstrip(_)
lstrip(s) ==
    IF Len(s) > 0 /\ Char(s, 1) \in Whitespace THEN lstrip(SubSeq(s, 2, Len(s))) ELSE s

RECURSIVE rstrip(_)
rstrip(s) ==
    IF Len(s) > 0 /\ Char(s, Len(s)) \in Whitespace
    THEN rstrip(SubSeq(s, 1, Len(s) - 1)) ELSE s

\* str.strip()
strip(s) == rstrip(lstrip(s))

\* str.find(c): 0-based index of the first occurrence, -1 when there is none
find(s, c) ==
    IF \E k \in 1..Len(s) : Char(s, k) = c
    THEN (CHOOSE k \in 1..Len(s) :
            /\ Char(s, k) = c
            /\ \A m \in 1..(k - 1) : Char(s, m) # c) - 1
    ELSE -1

lowerChar(c) ==
    IF \E k \in 1..Len(UPPER) : Char(UPPER, k) = c
    THEN Char(LOWER, CHOOSE k \in 1..Len(UPPER) : Char(UPPER, k) = c)
    ELSE c

\* str.lower()
RECURSIVE lower(_)
lower(s) == IF Len(s) = 0 THEN "" ELSE lowerChar(Char(s, 1)) \o lower(SubSeq(s, 2, Len(s)))

\* str.splitlines() on text whose only line boundary is "\n"
RECURSIVE splitlines(_)
splitlines(s) ==
    IF Len(s) = 0 THEN <<>>
    ELSE LET nl == find(s, "\n")
         IN  IF nl = -1 THEN <<s>>
             ELSE <<Slice(s, 0, nl)>> \o splitlines(SliceFrom(s, nl + 1))

digitVal(c) == (CHOOSE k \in 1..Len(DIGITS) : Char(DIGITS, k) = c) - 1

RECURSIVE natOf(_)
natOf(s) ==
    IF Len(s) = 0 THEN 0
    ELSE 10 * natOf(SubSeq(s, 1, Len(s) - 1)) + digitVal(Char(s, Len(s)))

\* int(s) for s of the form [-]?[0-9]+
int(s) == IF Char(s, 1) = "-" THEN 0 - natOf(SubSeq(s, 2, Len(s))) ELSE natOf(s)

RECURSIVE natStr(_)
natStr(n) ==
    IF n < 10 THEN Char(DIGITS, n + 1)
    ELSE natStr(n \div 10) \o Char(DIGITS, (n % 10) + 1)

\* str(n)
str(n) == IF n < 0 THEN "-" \o natStr(0 - n) ELSE natStr(n)

\* '{0:b}'.format(n), n >= 0
RECURSIVE bin(_)
bin(n) ==
    IF n < 2 THEN Char(DIGITS, n + 1)
    ELSE bin(n \div 2) \o Char(DIGITS, (n % 2) + 1)

RECURSIVE zfill(_, _)
zfill(s, w) == IF Len(s) >= w THEN s ELSE zfill("0" \o s, w)

\* int(bits, 2)
RECURSIVE int2(_)
int2(s) ==
    IF Len(s) = 0 THEN 0
    ELSE 2 * int2(SubSeq(s, 1, Len(s) - 1)) + digitVal(Char(s, Len(s)))

(***************************************************************************)
(* OPCODES and REGISTERS                                                   *)
(***************************************************************************)
OPCODES ==
    ("or" :> "0000") @@ ("subi" :> "0001") @@ ("ori" :> "0010") @@ ("sub" :> "0011") @@
    ("add" :> "0100") @@ ("lw" :> "0101") @@ ("j" :> "0110") @@ ("sll" :> "0111") @@
    ("sw" :> "1000") @@ ("addi" :> "1001") @@ ("srl" :> "1010") @@ ("beq" :> "1011") @@
    ("nor" :> "1100") @@ ("and" :> "1101") @@ ("andi" :> "1110") @@ ("bneq" :> "1111")

REGISTERS ==
    ("$zero" :> "0000") @@ ("$t0" :> "0001") @@ ("$t1" :> "0010") @@ ("$t2" :> "0011") @@
    ("$t3" :> "0100") @@ ("$t4" :> "0101") @@ ("$sp" :> "0110")

(***************************************************************************)
(* re.match: the patterns of parse and parseLabel are sequences of         *)
(* elements matched left to right from the start of the line; nothing      *)
(* anchors the end.  Every repetition in them is followed by a character   *)
(* outside its class (or ends the pattern), and no alternative is a prefix *)
(* of another in its group, so the greedy match is the only match.         *)
(***************************************************************************)
StartsAt(s, p, lit) ==
    /\ p + Len(lit) - 1 <= Len(s)
    /\ SubSeq(s, p, p + Len(lit) - 1) = lit

\* first position at or after p whose character is not in cls
RECURSIVE Span(_, _, _)
Span(s, p, cls) ==
    IF p <= Len(s) /\ Char(s, p) \in cls THEN Span(s, p + 1, cls) ELSE p

Alt(alts) == [t |-> "alt", alts |-> alts, cap |-> TRUE]
Lit(c) == [t |-> "lit", c |-> c, cap |-> FALSE]
Sp1 == [t |-> "sp+", cap |-> FALSE]
Sp0 == [t |-> "sp*", cap |-> FALSE]
SInt == [t |-> "int", cap |-> TRUE]
UInt == [t |-> "uint", cap |-> TRUE]
Id0 == [t |-> "id*", cap |-> TRUE]
Id1 == [t |-> "id+", cap |-> TRUE]

\* (\$t[0-4]|\$zero|\$sp)
Reg == Alt({"$t0", "$t1", "$t2", "$t3", "$t4", "$zero", "$sp"})

\* a repetition with + from p that stopped at q matched only if it moved
Plus(p, q) == IF q > p THEN q ELSE 0

\* position after element e matched at p, 0 when it does not match there
Elem(s, p, e) ==
    CASE e.t = "alt" ->
            IF \E a \in e.alts : StartsAt(s, p, a)
            THEN p + Len(CHOOSE a \in e.alts : StartsAt(s, p, a))
            ELSE 0
      [] e.t = "lit" -> IF StartsAt(s, p, e.c) THEN p + Len(e.c) ELSE 0
      [] e.t = "sp+" -> Plus(p, Span(s, p, {" "}))
      [] e.t = "sp*" -> Span(s, p, {" "})
      [] e.t = "int" ->
            IF StartsAt(s, p, "-") THEN Plus(p + 1, Span(s, p + 1, Digits))
            ELSE Plus(p, Span(s, p, Digits))
      [] e.t = "uint" -> Plus(p, Span(s, p, Digits))
      [] e.t = "id*" ->
            IF p <= Len(s) /\ Char(s, p) \in IdStart THEN Span(s, p + 1, IdCont) ELSE 0
      [] e.t = "id+" ->
            IF p <= Len(s) /\ Char(s, p) \in IdStart
            THEN Plus(p + 1, Span(s, p + 1, IdCont)) ELSE 0

NoMatch == [ok |-> FALSE, groups |-> <<>>, end |-> 0]

RECURSIVE MatchFrom(_, _, _, _, _)
MatchFrom(s, p, pat, k, groups) ==
    IF k > Len(pat) THEN [ok |-> TRUE, groups |-> groups, end |-> p]
    ELSE LET q == Elem(s, p, pat[k])
         IN  IF q = 0 THEN NoMatch
             ELSE MatchFrom(s, q, pat, k + 1,
                    IF pat[k].cap THEN Append(groups, SubSeq(s, p, q - 1)) ELSE groups)

\* re.match(pat, s): ok, g.groups(), and the position after the matched prefix
match(pat, s) == MatchFrom(s, 1, pat, 1, <<>>)

ROps == {"or", "sub", "add", "nor", "and"}
IOps == {"subi", "ori", "addi", "andi", "sll", "srl"}
MOps == {"lw", "sw"}
BOps == {"beq", "bneq"}
JOps == {"j"}

PatR == <<Alt(ROps), Sp1, Reg, Lit(","), Sp0, Reg, Lit(","), Sp0, Reg>>
PatI == <<Alt(IOps), Sp1, Reg, Lit(","), Sp0, Reg, Lit(","), Sp0, SInt>>
PatM == <<Alt(MOps), Sp1, Reg, Lit(","), Sp0, UInt, Lit("("), Reg, Lit(")")>>
PatB == <<Alt(BOps), Sp1, Reg, Lit(","), Sp0, Reg, Lit(","), Sp0, Id1>>
PatJ == <<Alt(JOps), Sp1, Id0>>
PatLabel == <<Id0, Lit(":")>>

parseLabel(line) == match(PatLabel, line)

\* the patterns of parse, in the order it tries them
ParsePatterns == <<PatR, PatI, PatM, PatB, PatJ, PatLabel>>

\* the match of the first of pats that matches line, NoMatch when none does
RECURSIVE firstMatch(_, _)
firstMatch(pats, line) ==
    IF Len(pats) = 0 THEN NoMatch
    ELSE IF match(Head(pats), line).ok THEN match(Head(pats), line)
    ELSE firstMatch(Tail(pats), line)

\* parse: the groups of the first pattern that matches; ok = FALSE stands
\* for RuntimeError('Unknown instruction format')
parse(line) == firstMatch(ParsePatterns, line)

(***************************************************************************)
(* Encoders.  A result is [ok, fmt, err]: fmt is the list of bit strings,  *)
(* err the message of the RuntimeError raised instead.                     *)
(***************************************************************************)
Fmt(f) == [ok |-> TRUE, fmt |-> f, err |-> ""]
Raise(msg) == [ok |-> FALSE, fmt |-> <<>>, err |-> msg]

\* getRTypeFormat with the destination register in field A and the first
\* source register in field C
getRTypeFormatSwapped(opcode, desReg, srcReg1, srcReg2) ==
    Fmt(<<OPCODES[opcode], REGISTERS[desReg], REGISTERS[srcReg2], REGISTERS[srcReg1]>>)

getRTypeFormat(opcode, desReg, srcReg1, srcReg2) ==
    Fmt(<<OPCODES[opcode], REGISTERS[srcReg1], REGISTERS[srcReg2], REGISTERS[desReg]>>)

\* '{0:04b}'.format(constVal + (1 << 32)) for -65536 <= constVal < 0.  The sum
\* does not fit TLC's 32-bit integers, so it is formatted from its two
\* 16-bit halves: the high half is 2^16 - 1 after the borrow, the low half
\* 2^16 + constVal.
format04bWrapped(constVal) == bin(65535) \o zfill(bin(65536 + constVal), 16)

\* getITypeFormat with the upper bound of the range test off by one
getITypeFormatWide(opcode, desReg, srcReg, const) ==
    LET constVal == int(const)
    IN  IF constVal < -8 \/ constVal > 8
        THEN Raise("Immediate value overflow " \o str(constVal))
        ELSE Fmt(<<OPCODES[opcode], REGISTERS[srcReg], REGISTERS[desReg],
                   Last(IF constVal < 0 THEN format04bWrapped(constVal)
                        ELSE zfill(bin(constVal), 4), 4)>>)

getITypeFormat(opcode, desReg, srcReg, const) ==
    LET constVal == int(const)
    IN  IF constVal < -8 \/ constVal >= 8
        THEN Raise("Immediate value overflow " \o str(constVal))
        ELSE Fmt(<<OPCODES[opcode], REGISTERS[srcReg], REGISTERS[desReg],
                   Last(IF constVal < 0 THEN format04bWrapped(constVal)
                        ELSE zfill(bin(constVal), 4), 4)>>)

getJTypeFormat(opcode, jmpAddr) ==
    LET jmpAddrVal == int(jmpAddr)
    IN  IF jmpAddrVal >= 256
        THEN Raise("Jump address overflow " \o str(jmpAddrVal))
        ELSE Fmt(<<OPCODES[opcode], Last(zfill(bin(jmpAddrVal), 8), 8), "0000">>)

(***************************************************************************)
(* preassemble: the text written to <file>.new.asm for one stripped,       *)
(* non-empty input line.                                                   *)
(***************************************************************************)
\* preassembleLine with the two lines of the push expansion in the other order
preassembleLineSwapped(line) ==
    LET colon_pos == find(line, ":")
        hasLabel == Len(line) # 0 /\ colon_pos # -1 /\ colon_pos < Len(line) - 1
        label == Slice(line, 0, colon_pos + 1)
        rest == IF hasLabel THEN strip(SliceFrom(line, colon_pos + 1)) ELSE line
        replacement_line ==
            IF lower(Slice(rest, 0, 4)) = "push"
            THEN "sw " \o strip(SliceFrom(rest, 4)) \o ", 0($sp)\nsubi $sp, $sp, 1"
            ELSE IF lower(Slice(rest, 0, 3)) = "pop"
            THEN "lw " \o strip(SliceFrom(rest, 3)) \o ", 0($sp)\naddi $sp, $sp, 1"
            ELSE rest
    IN  (IF hasLabel THEN label \o "\n" ELSE "") \o replacement_line \o "\n"

preassembleLine(line) ==
    LET colon_pos == find(line, ":")
        hasLabel == Len(line) # 0 /\ colon_pos # -1 /\ colon_pos < Len(line) - 1
        label == Slice(line, 0, colon_pos + 1)
        rest == IF hasLabel THEN strip(SliceFrom(line, colon_pos + 1)) ELSE line
        replacement_line ==
            IF lower(Slice(rest, 0, 4)) = "push"
            THEN "subi $sp, $sp, 1\nsw " \o strip(SliceFrom(rest, 4)) \o ", 0($sp)"
            ELSE IF lower(Slice(rest, 0, 3)) = "pop"
            THEN "lw " \o strip(SliceFrom(rest, 3)) \o ", 0($sp)\naddi $sp, $sp, 1"
            ELSE rest
    IN  (IF hasLabel THEN label \o "\n" ELSE "") \o replacement_line \o "\n"

(***************************************************************************)
(* Pass 1: one line of the label-table loop.                               *)
(***************************************************************************)
Bind(tbl, key, val) ==
    [x \in (DOMAIN tbl) \cup {key} |-> IF x = key THEN val ELSE tbl[x]]

\* pass1Token with the counter advanced on label lines too
pass1TokenCounting(tbl, no, tk) ==
    IF tk.ok THEN [labels |-> Bind(tbl, tk.groups[1], no), lineNo |-> no + 1]
    ELSE [labels |-> tbl, lineNo |-> no + 1]

pass1Token(tbl, no, tk) ==
    IF tk.ok THEN [labels |-> Bind(tbl, tk.groups[1], no), lineNo |-> no]
    ELSE [labels |-> tbl, lineNo |-> no + 1]

pass1Line(tbl, no, line) == pass1Token(tbl, no, parseLabel(strip(line)))

(***************************************************************************)
(* Pass 2: the body of the try block for one line.  The outcome is         *)
(*   "word"   fmt holds the bit strings of the encoded instruction,        *)
(*   "label"  the line is a label declaration and encodes to nothing,      *)
(*   "error"  a RuntimeError with message err was raised (and is caught),  *)
(*   "crash"  tk[1] or tk[3] is read from the 1-tuple of a label           *)
(*            declaration whose name is a mnemonic: IndexError, which the  *)
(*            except clause does not catch.                                *)
(***************************************************************************)
Outcome(r) ==
    IF r.ok THEN [kind |-> "word", fmt |-> r.fmt, err |-> ""]
    ELSE [kind |-> "error", fmt |-> <<>>, err |-> r.err]

IndexError == [kind |-> "crash", fmt |-> <<>>, err |-> "tuple index out of range"]

\* jumpOffsetOf relative to the branch itself instead of the next instruction
jumpOffsetNoBias(tbl, jumpLabel, no) == tbl[jumpLabel] - no

jumpOffsetOf(tbl, jumpLabel, no) == tbl[jumpLabel] - (no + 1)

\* the if/elif chain on tk[0], tk being the groups parse returned
encodeTokens(tk, tbl, no) ==
    IF tk[1] \in ROps THEN
        IF Len(tk) < 4 THEN IndexError
        ELSE Outcome(getRTypeFormat(tk[1], tk[2], tk[3], tk[4]))
    ELSE IF tk[1] \in IOps THEN
        IF Len(tk) < 4 THEN IndexError
        ELSE Outcome(getITypeFormat(tk[1], tk[2], tk[3], tk[4]))
    ELSE IF tk[1] \in MOps THEN
        IF Len(tk) < 4 THEN IndexError
        ELSE Outcome(getITypeFormat(tk[1], tk[2], tk[4], tk[3]))
    ELSE IF tk[1] \in BOps THEN
        IF Len(tk) < 4 THEN IndexError
        ELSE IF tk[4] \notin DOMAIN tbl THEN Outcome(Raise("Unrecognized label"))
        ELSE Outcome(getITypeFormat(tk[1], tk[2], tk[3],
                                    str(jumpOffsetOf(tbl, tk[4], no))))
    ELSE IF tk[1] \in JOps THEN
        IF Len(tk) < 2 THEN IndexError
        ELSE IF tk[2] \notin DOMAIN tbl THEN Outcome(Raise("Unrecognized label"))
        ELSE Outcome(getJTypeFormat(tk[1], str(tbl[tk[2]])))
    ELSE [kind |-> "label", fmt |-> <<>>, err |-> ""]

encodeParsed(g, tbl, no) ==
    IF ~g.ok THEN Outcome(Raise("Unknown instruction format"))
    ELSE encodeTokens(g.groups, tbl, no)

encodeLine(line, tbl, no) == encodeParsed(parse(strip(strip(line))), tbl, no)

\* ' '.join(fmt)
RECURSIVE join(_)
join(fmt) ==
    IF Len(fmt) = 0 THEN ""
    ELSE IF Len(fmt) = 1 THEN fmt[1]
    ELSE fmt[1] \o " " \o join(Tail(fmt))

\* fmtStr.replace(' ', '')
RECURSIVE removeSpaces(_)
removeSpaces(s) ==
    IF Len(s) = 0 THEN ""
    ELSE (IF Char(s, 1) = " " THEN "" ELSE Char(s, 1)) \o removeSpaces(SubSeq(s, 2, Len(s)))

\* int(fmtStr.replace(' ', ''), 2).to_bytes(2, byteorder='big')
fmtBytesOf(fmtStr) ==
    LET v == int2(removeSpaces(fmtStr))
    IN  <<v \div 256, v % 256>>

(***************************************************************************)
(* A whole run as a function of the input file: the loops of preassemble   *)
(* and main folded over the lines.  The result is the label table, the     *)
(* bytes of output.bin, whether output.bin exists, and how the run ended:  *)
(* "done", "failed" (exit(1) after os.remove) or "crashed".                *)
(***************************************************************************)
RECURSIVE preassembleFrom(_, _, _)
preassembleFrom(prog, k, text) ==
    IF k > Len(prog) \/ strip(prog[k]) = "" THEN text
    ELSE preassembleFrom(prog, k + 1, text \o preassembleLine(strip(prog[k])))

\* the text of <file>.new.asm
preassemble(prog) == preassembleFrom(prog, 1, "")

RECURSIVE pass1From(_, _, _)
pass1From(ls, k, acc) ==
    IF k > Len(ls) THEN acc.labels
    ELSE pass1From(ls, k + 1, pass1Line(acc.labels, acc.lineNo, ls[k]))

pass1(ls) == pass1From(ls, 1, [labels |-> <<>>, lineNo |-> 0])

pass2Apply(acc, cur) ==
    CASE cur.kind = "word" ->
            [acc EXCEPT !.bytes = @ \o fmtBytesOf(join(cur.fmt)), !.lineNo = @ + 1]
      [] cur.kind = "label" -> acc
      [] cur.kind = "error" -> [acc EXCEPT !.error = TRUE]
      [] cur.kind = "crash" -> [acc EXCEPT !.crashed = TRUE]

RECURSIVE pass2From(_, _, _, _)
pass2From(ls, k, tbl, acc) ==
    IF k > Len(ls) \/ acc.crashed THEN acc
    ELSE pass2From(ls, k + 1, tbl, pass2Apply(acc, encodeLine(ls[k], tbl, acc.lineNo)))

pass2(ls, tbl) ==
    pass2From(ls, 1, tbl, [bytes |-> <<>>, lineNo |-> 0, error |-> FALSE, crashed |-> FALSE])

mainEnd(tbl, acc) ==
    [labels |-> tbl,
     bytes |-> IF acc.error /\ ~acc.crashed THEN <<>> ELSE acc.bytes,
     exists |-> acc.crashed \/ ~acc.error,
     status |-> IF acc.crashed THEN "crashed" ELSE IF acc.error THEN "failed" ELSE "done"]

mainLines(ls) == mainEnd(pass1(ls), pass2(ls, pass1(ls)))

main(prog) == mainLines(splitlines(preassemble(prog)))

(***************************************************************************)
(* The input files the model runs the program on.                          *)
(***************************************************************************)
MaxLines == 2

RawLines ==
    { "add $t0, $zero, $zero",
      "addi $t1, $t0, -8",
      "andi $t3, $t4, -9",
      "subi $t0, $t0, 8",
      "lw $t2, 7($sp)",
      "L1: beq $t0, $t1, L2",
      "L2: bneq $t1, $sp, L2",
      "L2:",
      "beq $t0, $t1, L",
      "L: j L",
      "lp: push $t0",
      "pop $t3",
      "j lp",
      "pusher:",
      "nor $t0, $t1, $t2x",
      "add:",
      "" }

Programs == UNION { [1..n -> RawLines] : n \in 0..MaxLines }

(***************************************************************************)
(* State                                                                   *)
(***************************************************************************)
VARIABLES
    src,            \* the lines of the input file argv[1]
    rd,             \* lines of it preassemble has read
    newasm,         \* text of <file>.new.asm
    pc,             \* position of the run
    lines,          \* main: asmFile.read().splitlines()
    labels,         \* main: the label table
    lineNo,         \* main: the address counter
    i,              \* main: 0-based index of the next line of the running loop
    error,          \* main: an error was recorded
    binOutFile,     \* bytes written to output.bin
    outputExists,   \* output.bin exists
    stdout          \* the per-line reports of pass 2

vars == <<src, rd, newasm, pc, lines, labels, lineNo, i, error, binOutFile,
          outputExists, stdout>>

Init ==
    /\ src \in Programs
    /\ rd = 0
    /\ newasm = ""
    /\ pc = "preassemble"
    /\ lines = <<>>
    /\ labels = <<>>
    /\ lineNo = 0
    /\ i = 0
    /\ error = FALSE
    /\ binOutFile = <<>>
    /\ outputExists = FALSE
    /\ stdout = <<>>

\* infile.readline().strip(): '' at the end of the file
nextInput == IF rd < Len(src) THEN strip(src[rd + 1]) ELSE ""

\* one iteration of the while loop of preassemble
PreassembleLine ==
    /\ pc = "preassemble"
    /\ nextInput # ""
    /\ newasm' = newasm \o preassembleLine(nextInput)
    /\ rd' = rd + 1
    /\ UNCHANGED <<src, pc, lines, labels, lineNo, i, error, binOutFile,
                   outputExists, stdout>>

\* the loop ends at the first empty line (or the end of the file); main opens
\* the normalized file and output.bin and starts pass 1
PreassembleEnd ==
    /\ pc = "preassemble"
    /\ nextInput = ""
    /\ lines' = splitlines(newasm)
    /\ outputExists' = TRUE
    /\ binOutFile' = <<>>
    /\ labels' = <<>>
    /\ lineNo' = 0
    /\ i' = 0
    /\ pc' = "pass1"
    /\ UNCHANGED <<src, rd, newasm, error, stdout>>

Pass1Set(r) ==
    /\ labels' = r.labels
    /\ lineNo' = r.lineNo

Pass1Line ==
    /\ pc = "pass1"
    /\ i < Len(lines)
    /\ Pass1Set(pass1Line(labels, lineNo, lines[i + 1]))
    /\ i' = i + 1
    /\ UNCHANGED <<src, rd, newasm, pc, lines, error, binOutFile, outputExists, stdout>>

Pass1End ==
    /\ pc = "pass1"
    /\ i = Len(lines)
    /\ error' = FALSE
    /\ lineNo' = 0
    /\ i' = 0
    /\ pc' = "pass2"
    /\ UNCHANGED <<src, rd, newasm, lines, labels, binOutFile, outputExists, stdout>>

\* the line encoded: print the report, write the two bytes, advance lineNo
WriteWord(line, fmtStr) ==
    /\ stdout' = Append(stdout,
            [i |-> i + 1, line |-> line, kind |-> "word", lineNo |-> lineNo,
             fmtStr |-> fmtStr, err |-> ""])
    /\ binOutFile' = binOutFile \o fmtBytesOf(fmtStr)
    /\ lineNo' = lineNo + 1

\* except RuntimeError: print the error, set the flag
Except(line, e) ==
    /\ stdout' = Append(stdout,
            [i |-> i + 1, line |-> line, kind |-> "error", lineNo |-> lineNo,
             fmtStr |-> "", err |-> e])
    /\ error' = TRUE

\* one iteration of the pass 2 loop whose line has outcome cur
Pass2Step(kind, cur) ==
    /\ cur.kind = kind
    /\ CASE kind = "word" ->
              /\ WriteWord(strip(lines[i + 1]), join(cur.fmt))
              /\ i' = i + 1
              /\ UNCHANGED <<pc, error>>
         [] kind = "label" ->
              /\ i' = i + 1
              /\ UNCHANGED <<pc, error, stdout, binOutFile, lineNo>>
         [] kind = "error" ->
              /\ Except(strip(lines[i + 1]), cur.err)
              /\ i' = i + 1
              /\ UNCHANGED <<pc, binOutFile, lineNo>>
         [] kind = "crash" ->
              \* the uncaught IndexError ends the process: the bytes written so
              \* far are flushed when the interpreter exits and output.bin stays
              /\ pc' = "crashed"
              /\ UNCHANGED <<i, error, stdout, binOutFile, lineNo>>
    /\ UNCHANGED <<src, rd, newasm, lines, labels, outputExists>>

Pass2Word ==
    /\ pc = "pass2"
    /\ i < Len(lines)
    /\ Pass2Step("word", encodeLine(lines[i + 1], labels, lineNo))

Pass2Label ==
    /\ pc = "pass2"
    /\ i < Len(lines)
    /\ Pass2Step("label", encodeLine(lines[i + 1], labels, lineNo))

Pass2Error ==
    /\ pc = "pass2"
    /\ i < Len(lines)
    /\ Pass2Step("error", encodeLine(lines[i + 1], labels, lineNo))

Pass2Crash ==
    /\ pc = "pass2"
    /\ i < Len(lines)
    /\ Pass2Step("crash", encodeLine(lines[i + 1], labels, lineNo))

\* the files are closed; on error output.bin is removed
Finish ==
    /\ pc = "pass2"
    /\ i = Len(lines)
    /\ IF error
       THEN /\ outputExists' = FALSE
            /\ binOutFile' = <<>>
            /\ pc' = "failed"
       ELSE /\ pc' = "done"
            /\ UNCHANGED <<outputExists, binOutFile>>
    /\ UNCHANGED <<src, rd, newasm, lines, labels, lineNo, i, error, stdout>>

Next ==
    \/ PreassembleLine
    \/ PreassembleEnd
    \/ Pass1Line
    \/ Pass1End
    \/ Pass2Word
    \/ Pass2Label
    \/ Pass2Error
    \/ Pass2Crash
    \/ Finish

Spec == Init /\ [][Next]_vars

(***************************************************************************)
(* Vocabulary of the properties                                            *)
(***************************************************************************)
Ended == pc \in {"done", "failed", "crashed"}

Pass1Done == pc \in {"pass2", "done", "failed", "crashed"}

\* line k of the normalized program is a label declaration
IsLabelLine(k) == parseLabel(strip(lines[k])).ok

LabelName(k) == parseLabel(strip(lines[k])).groups[1]

\* the number of non-label lines before line k: the address pass 1 gives line k
NonLabelBefore(k) == Cardinality({ m \in 1..(k - 1) : ~IsLabelLine(m) })

\* the n-th 16-bit word of output.bin, most significant byte first
EmittedWord(n) == binOutFile[2 * n - 1] * 256 + binOutFile[2 * n]

\* the 16-bit word a report line shows
ReportedWord(r) == int2(removeSpaces(r.fmtStr))

FieldOp(w) == w \div 4096
FieldA(w) == (w \div 256) % 16
FieldB(w) == (w \div 16) % 16
FieldC(w) == w % 16

SignExtend4(c) == IF c >= 8 THEN c - 16 ELSE c

\* the tables inverted
OpcodeOf(c) == CHOOSE m \in DOMAIN OPCODES : int2(OPCODES[m]) = c
RegisterOf(c) == CHOOSE m \in DOMAIN REGISTERS : int2(REGISTERS[m]) = c

(***************************************************************************)
(* C1.  All-or-nothing emission: at the end of a run, if a line raised an  *)
(* error in pass 2 then output.bin does not exist and holds no byte; if no *)
(* line raised an error then output.bin holds exactly 2 x (number of       *)
(* non-label lines) bytes, the encoded words in program order, most        *)
(* significant byte first.                                                 *)
(* Violated: a label declaration named like a mnemonic raises IndexError,  *)
(* which is not caught, and output.bin stays with the words written so far.*)
(***************************************************************************)
\* C1: a run in which a line raised ends with no output.bin; a run without
\* errors ends with the 2 x (non-label lines) bytes of the encoded words
C1_AllOrNothing ==
    Ended =>
        IF error \/ pc = "crashed"
        THEN ~outputExists /\ binOutFile = <<>>
        ELSE /\ outputExists
             /\ Len(binOutFile) = 2 * NonLabelBefore(Len(lines) + 1)
             /\ Len(stdout) = NonLabelBefore(Len(lines) + 1)
             /\ \A n \in 1..Len(stdout) : EmittedWord(n) = ReportedWord(stdout[n])

(***************************************************************************)
(* C2.  Branch offset law: in a run that ends successfully, for every      *)
(* beq/bneq at address a (the number of non-label lines before it) whose   *)
(* target label is bound to L, field C of the emitted word is the 4-bit    *)
(* two's complement of L - (a + 1), and sign-extending field C and adding  *)
(* a + 1 gives L.                                                          *)
(***************************************************************************)
IsBranchReport(r) == parse(r.line).ok /\ parse(r.line).groups[1] \in BOps

BranchTarget(r) == parse(r.line).groups[4]

BranchLaw(n, a, target) ==
    /\ target \in DOMAIN labels
    /\ FieldC(EmittedWord(n)) = (labels[target] - (a + 1)) % 16
    /\ SignExtend4(FieldC(EmittedWord(n))) + a + 1 = labels[target]

\* C2: in a successful run every emitted branch word carries L - (a + 1) in
\* field C, 4-bit two's complement
C2_BranchOffsetLaw ==
    pc = "done" =>
        \A n \in 1..Len(stdout) :
            IsBranchReport(stdout[n]) =>
                BranchLaw(n, NonLabelBefore(stdout[n].i), BranchTarget(stdout[n]))

\* a successful run with a branch to a label declared after it and a branch
\* backwards whose offset is negative
C2_Witness ==
    /\ pc = "done"
    /\ \E n \in 1..Len(stdout) :
        /\ IsBranchReport(stdout[n])
        /\ \E k \in (stdout[n].i + 1)..Len(lines) :
              IsLabelLine(k) /\ LabelName(k) = BranchTarget(stdout[n])
    /\ \E n \in 1..Len(stdout) :
        /\ IsBranchReport(stdout[n])
        /\ SignExtend4(FieldC(EmittedWord(n))) < 0

(***************************************************************************)
(* C3.  Label table after pass 1: every declared label is bound to the     *)
(* number of non-label lines before its last declaration, and only         *)
(* declared labels are bound; while pass 1 runs the same holds of the      *)
(* lines read so far, and the address counter is the number of non-label   *)
(* lines read (label lines do not advance it, every other line advances it *)
(* by one).                                                                *)
(***************************************************************************)
\* the last declaration of label name among lines 1..upto
LastDecl(name, upto) ==
    CHOOSE k \in 1..upto :
        /\ IsLabelLine(k) /\ LabelName(k) = name
        /\ \A m \in (k + 1)..upto : ~(IsLabelLine(m) /\ LabelName(m) = name)

LabelTableOf(upto) ==
    /\ DOMAIN labels = { LabelName(k) : k \in { m \in 1..upto : IsLabelLine(m) } }
    /\ \A name \in DOMAIN labels :
          labels[name] = NonLabelBefore(LastDecl(name, upto))

\* C3: the label table binds each declared name to the number of non-label
\* lines before its last declaration; the counter counts non-label lines
C3_LabelTable ==
    /\ pc = "pass1" => LabelTableOf(i) /\ lineNo = NonLabelBefore(i + 1)
    /\ Pass1Done => LabelTableOf(Len(lines))

\* pass 1 is over; a label is declared twice at different addresses and its
\* last declaration is the last line (bound past the end), and two labels
\* with no instruction between them exist in some run
C3_Witness ==
    /\ pc = "pass2" /\ i = 0
    /\ Len(lines) >= 3
    /\ IsLabelLine(Len(lines))
    /\ \E k \in 1..(Len(lines) - 1) :
          /\ IsLabelLine(k)
          /\ LabelName(k) = LabelName(Len(lines))
          /\ NonLabelBefore(k) # NonLabelBefore(Len(lines))
    /\ labels[LabelName(Len(lines))] = NonLabelBefore(Len(lines) + 1)

(***************************************************************************)
(* C4.  Immediate range and encoding: getITypeFormat produces a word if    *)
(* and only if the value v satisfies -8 <= v <= 7, and then field C is the *)
(* 4-bit string of v mod 16; for every other v it raises the immediate     *)
(* overflow error and produces no word.  Stated of every value within      *)
(* MaxImm of zero, and of every I-type line (arithmetic, memory, branch)   *)
(* pass 2 has reported.                                                    *)
(***************************************************************************)
MaxImm == 20

ImmediateLaw(v, r) ==
    /\ r.ok <=> (-8 <= v /\ v <= 7)
    /\ r.ok => /\ Len(r.fmt) = 4
               /\ Len(r.fmt[4]) = 4
               /\ int2(r.fmt[4]) = v % 16
    /\ ~r.ok => /\ r.fmt = <<>>
                /\ r.err = "Immediate value overflow " \o str(v)

\* the value pass 2 handed to getITypeFormat for the reported line, tk its tokens
ImmediateOf(r, tk) ==
    IF tk[1] \in IOps THEN int(tk[4])
    ELSE IF tk[1] \in MOps THEN int(tk[3])
    ELSE labels[tk[4]] - (r.lineNo + 1)

UsesImmediate(g) ==
    /\ g.ok
    /\ \/ g.groups[1] \in IOps \cup MOps
       \/ g.groups[1] \in BOps /\ g.groups[4] \in DOMAIN labels

ReportLaw(r, v) ==
    /\ r.kind = "word" <=> (-8 <= v /\ v <= 7)
    /\ r.kind = "word" => FieldC(ReportedWord(r)) = v % 16
    /\ r.kind # "word" => r.kind = "error" /\ r.err = "Immediate value overflow " \o str(v)

\* C4: getITypeFormat yields a word iff -8 <= v <= 7, with field C = v mod 16,
\* and the overflow error otherwise
C4_ImmediateRange ==
    /\ \A v \in (0 - MaxImm)..MaxImm :
          ImmediateLaw(v, getITypeFormat("addi", "$t1", "$t0", str(v)))
    /\ \A n \in 1..Len(stdout) :
          UsesImmediate(parse(stdout[n].line)) =>
              ReportLaw(stdout[n], ImmediateOf(stdout[n], parse(stdout[n].line).groups))

\* one run reported an immediate of -8 as a word with field C = 1000 and an
\* immediate of 8 as an overflow
C4_Witness ==
    /\ \E n \in 1..Len(stdout) :
          /\ stdout[n].kind = "word"
          /\ parse(stdout[n].line).groups[1] \in IOps
          /\ int(parse(stdout[n].line).groups[4]) = -8
          /\ FieldC(ReportedWord(stdout[n])) = 8
    /\ \E n \in 1..Len(stdout) :
          /\ stdout[n].kind = "error"
          /\ stdout[n].err = "Immediate value overflow 8"

(***************************************************************************)
(* C5.  Pseudo-instruction expansion: a run on a file with a line          *)
(* `push R` (or `label: push R`) ends with the same label table, the same  *)
(* output and the same result as the run on the file with that line        *)
(* replaced by `subi $sp, $sp, 1` and `sw R, 0($sp)` (the label kept in    *)
(* front of the first); likewise `pop R` and `lw R, 0($sp)`,               *)
(* `addi $sp, $sp, 1`.  A label attached to a push/pop is bound to the     *)
(* address of the first expanded instruction.                              *)
(***************************************************************************)
LabelSamples == {"lp", "L", "L1", "L2"}

LabelPrefixes == {""} \cup { lab \o ": " : lab \in LabelSamples }

Expanded(mn, R) ==
    IF mn = "push" THEN <<"subi $sp, $sp, 1", "sw " \o R \o ", 0($sp)">>
    ELSE <<"lw " \o R \o ", 0($sp)", "addi $sp, $sp, 1">>

\* prog with line k replaced by the two lines two, the first behind prefix pre
Replaced(prog, k, pre, two) ==
    SubSeq(prog, 1, k - 1) \o <<pre \o two[1], two[2]>> \o SubSeq(prog, k + 1, Len(prog))

RunResult == [labels |-> labels, bytes |-> binOutFile, exists |-> outputExists, status |-> pc]

\* some declaration `lab:` in the normalized program is directly followed by
\* first, and if it is the last declaration of lab, lab is bound to the
\* address of that instruction
BoundToFirst(lab, first) ==
    \E m \in 1..(Len(lines) - 1) :
        /\ lines[m] = lab \o ":"
        /\ lines[m + 1] = first
        /\ LastDecl(lab, Len(lines)) = m => labels[lab] = NonLabelBefore(m + 1)

\* C5: replacing a push/pop line by its two primitive lines changes nothing
\* in the result of the run; its label is bound to the first of the two
C5_PseudoExpansion ==
    Ended =>
        \A k \in 1..Len(src) : \A mn \in {"push", "pop"} : \A R \in DOMAIN REGISTERS :
            /\ \A pre \in LabelPrefixes :
                  src[k] = pre \o mn \o " " \o R =>
                      main(Replaced(src, k, pre, Expanded(mn, R))) = RunResult
            /\ \A lab \in LabelSamples :
                  (k <= rd /\ src[k] = lab \o ": " \o mn \o " " \o R) =>
                      BoundToFirst(lab, Expanded(mn, R)[1])

\* a successful run whose file holds a labelled push and a jump to that label
C5_Witness ==
    /\ pc = "done"
    /\ \E k \in 1..rd : src[k] = "lp: push $t0"
    /\ \E k \in 1..rd : src[k] = "j lp"
    /\ "lp" \in DOMAIN labels
    /\ Len(binOutFile) >= 6

(***************************************************************************)
(* C6.  Round trip of R-type, I-type-arithmetic and I-type-memory words:   *)
(* the four 4-bit fields of the word, looked up in the inverted opcode and *)
(* register tables, give back the parsed operands.  R-type op rd, rs, rt:  *)
(* A = rs, B = rt, C = rd.  I-type op rd, rs, imm: A = rs, B = rd,         *)
(* C = imm sign-extended.  lw/sw rt, offset(rs): A = rs, B = rt,           *)
(* C = offset.  `add $t0, $zero, $zero` is the word 0100 0000 0000 0001,   *)
(* bytes 0x40 0x01.                                                        *)
(***************************************************************************)
RoundTrip(w, tk) ==
    /\ tk[1] \in ROps =>
          /\ OpcodeOf(FieldOp(w)) = tk[1]
          /\ RegisterOf(FieldA(w)) = tk[3]
          /\ RegisterOf(FieldB(w)) = tk[4]
          /\ RegisterOf(FieldC(w)) = tk[2]
    /\ tk[1] \in IOps =>
          /\ OpcodeOf(FieldOp(w)) = tk[1]
          /\ RegisterOf(FieldA(w)) = tk[3]
          /\ RegisterOf(FieldB(w)) = tk[2]
          /\ SignExtend4(FieldC(w)) = int(tk[4])
    /\ tk[1] \in MOps =>
          /\ OpcodeOf(FieldOp(w)) = tk[1]
          /\ RegisterOf(FieldA(w)) = tk[4]
          /\ RegisterOf(FieldB(w)) = tk[2]
          /\ FieldC(w) = int(tk[3])

\* the number of word reports among the first n reports
WordsUpTo(n) == Cardinality({ m \in 1..n : stdout[m].kind = "word" })

\* C6: the fields of every R-type, I-type-arithmetic and lw/sw word decode to
\* the parsed operands
C6_RoundTrip ==
    \A n \in 1..Len(stdout) :
        stdout[n].kind = "word" =>
            /\ RoundTrip(ReportedWord(stdout[n]), parse(stdout[n].line).groups)
            /\ pc # "failed" => EmittedWord(WordsUpTo(n)) = ReportedWord(stdout[n])
            /\ stdout[n].line = "add $t0, $zero, $zero" =>
                  /\ stdout[n].fmtStr = "0100 0000 0000 0001"
                  /\ pc # "failed" =>
                        /\ binOutFile[2 * WordsUpTo(n) - 1] = 64
                        /\ binOutFile[2 * WordsUpTo(n)] = 1

\* output.bin holds the word of `add $t0, $zero, $zero` and that of an I-type
\* line with a negative immediate
C6_Witness ==
    /\ pc = "done"
    /\ \E n \in 1..Len(stdout) :
          stdout[n].line = "add $t0, $zero, $zero" /\ EmittedWord(n) = 16385
    /\ \E n \in 1..Len(stdout) :
          /\ stdout[n].kind = "word"
          /\ parse(stdout[n].line).groups[1] \in IOps
          /\ int(parse(stdout[n].line).groups[4]) < 0

(***************************************************************************)
(* C7.  Errors are line-local: pass 2 processes every line of the          *)
(* normalized program, and the outcome reported for a line (the word, or   *)
(* the error) is the outcome of encoding that line's text with the         *)
(* completed label table at the line's pass 1 address, the number of       *)
(* non-label lines before it (C7_LineLocal states the outcomes,            *)
(* C7_EveryLineProcessed that no line is skipped).                         *)
(* Violated: pass 2 advances its address counter only on lines that        *)
(* encode, so a branch after a failed line is encoded one address too low; *)
(* and an IndexError ends pass 2 before the remaining lines.               *)
(***************************************************************************)
SameOutcome(r, o) ==
    /\ o.kind = r.kind
    /\ r.kind = "word" => join(o.fmt) = r.fmtStr
    /\ r.kind = "error" => o.err = r.err

\* C7: the outcome reported for a line is that of encoding it with the final
\* label table at its pass 1 address
C7_LineLocal ==
    \A n \in 1..Len(stdout) :
        SameOutcome(stdout[n],
                    encodeLine(lines[stdout[n].i], labels, NonLabelBefore(stdout[n].i)))

\* the other half of C7: a run ends only after pass 2 went through every line
\* (fails as well, by the IndexError of C1)
C7_EveryLineProcessed == Ended => i = Len(lines)

(***************************************************************************)
(* C8.  Branch label grammar: every line `op rs, rt, label` with op beq or *)
(* bneq, rs and rt registers and label an identifier of length >= 1 is     *)
(* classified by parse as a branch with exactly that label, and a name is  *)
(* accepted as a branch target exactly when `j label` and `label:` accept  *)
(* it (stated of the names the run has declared).                          *)
(* Violated: the branch pattern asks for two characters or more.           *)
(***************************************************************************)
IsIdentifier(t) ==
    /\ Len(t) >= 1
    /\ Char(t, 1) \in IdStart
    /\ \A k \in 2..Len(t) : Char(t, k) \in IdCont

IdentSamples == { t \in LabelSamples \cup {"_", "x9_", "nowhere"} : IsIdentifier(t) }

IsParsedAs(line, tk) == parse(line).ok /\ parse(line).groups = tk

\* C8: a branch line with any identifier as label parses as a branch with that
\* label; branch, j and declaration accept the same names
C8_BranchLabelGrammar ==
    /\ \A k \in 1..Len(lines) :
          \A op \in BOps : \A rs \in DOMAIN REGISTERS : \A rt \in DOMAIN REGISTERS :
              \A lab \in IdentSamples :
                  lines[k] = op \o " " \o rs \o ", " \o rt \o ", " \o lab =>
                      IsParsedAs(lines[k], <<op, rs, rt, lab>>)
    /\ \A lab \in DOMAIN labels :
          /\ IsParsedAs("beq $t0, $t1, " \o lab, <<"beq", "$t0", "$t1", lab>>)
                <=> IsParsedAs("j " \o lab, <<"j", lab>>)
          /\ IsParsedAs("j " \o lab, <<"j", lab>>) <=> IsParsedAs(lab \o ":", <<lab>>)

(***************************************************************************)
(* C9.  Classifier strictness: parse classifies a line only if the whole   *)
(* line is an instance of one of the six shapes; a line with extra         *)
(* characters after its last operand raises 'Unknown instruction format'   *)
(* and contributes no word.                                                *)
(* Violated: re.match anchors the start of the line only.                  *)
(***************************************************************************)
WholeLine(line) == parse(line).end = Len(line) + 1

\* C9: parse classifies a line only if a shape matches the whole line
C9_ClassifierStrict ==
    /\ \A k \in 1..Len(lines) :
          parse(strip(lines[k])).ok => WholeLine(strip(lines[k]))
    /\ \A n \in 1..Len(stdout) :
          stdout[n].kind = "word" => WholeLine(stdout[n].line)

(***************************************************************************)
(* C10.  Preprocessor frame: a line is rewritten as a push/pop expansion   *)
(* only when, after label splitting, its mnemonic is exactly push or pop   *)
(* (in any letter case); every other line read is written unchanged (its   *)
(* label, if it has trailing text, on a line of its own before it).        *)
(* Violated: the test is on the first four (three) characters, so          *)
(* `pusher:` is rewritten.                                                 *)
(***************************************************************************)
\* `label:` followed by non-empty trailing text
HasLabelPrefix(line) == parseLabel(line).ok /\ parseLabel(line).end <= Len(line)

AfterLabel(line) ==
    IF HasLabelPrefix(line) THEN strip(SubSeq(line, parseLabel(line).end, Len(line)))
    ELSE line

\* the leading word of an instruction text
Mnemonic(text) == SubSeq(text, 1, Span(text, 1, IdCont) - 1)

WrittenUnchanged(line) ==
    preassembleLine(line) =
        (IF HasLabelPrefix(line)
         THEN SubSeq(line, 1, parseLabel(line).end - 1) \o "\n" ELSE "")
        \o AfterLabel(line) \o "\n"

\* C10: a line whose mnemonic is not push or pop is written unchanged
C10_PreprocessorFrame ==
    \A k \in 1..rd :
        lower(Mnemonic(AfterLabel(strip(src[k])))) \notin {"push", "pop"} =>
            WrittenUnchanged(strip(src[k]))

====
